---------------------------- MODULE Spec2Model ----------------------------
(***************************************************************************)
(* ask_first: index FIRST survey tiles by the sky centre their file name   *)
(* encodes (read_paths) and cut a patch out of the tile nearest to a       *)
(* query coordinate (get_image).                                           *)
(*                                                                         *)
(* Representation.  A str is a sequence of one-character strings.  An      *)
(* angle is an integer number of 1/600 degree (a tenth of an arcminute),   *)
(* which represents every value the file name codec produces exactly.  A   *)
(* pixel coordinate returned by the WCS transform is an integer number of  *)
(* tenths of a pixel.                                                      *)
(***************************************************************************)
EXTENDS Integers, Sequences, FiniteSets, TLC

\* ------------------------------------------------------------------ bounds
MaxFiles == 4
MaxKeys == 2
MaxEpochs == 2
ImgH == 5
ImgW == 6

\* ----------------------------------------------------------------- strings
\* The characters that occur in the modelled names, in code point order.
Alphabet ==
  << "+", "-", ".", "/", "0", "1", "2", "3", "4", "5", "6", "7", "8", "9",
     "A", "E", "R", "S", "a", "b", "d", "e", "f", "g", "i", "l", "m", "n",
     "o", "s", "t" >>

Ord(c) == CHOOSE i \in 1..Len(Alphabet) : Alphabet[i] = c

Digits == {"0", "1", "2", "3", "4", "5", "6", "7", "8", "9"}

DigitVal(c) == Ord(c) - Ord("0")

\* s[a:b] for 0 <= a <= b
Slice(s, a, b) ==
  IF a >= Len(s) THEN << >>
  ELSE SubSeq(s, a + 1, IF b < Len(s) THEN b ELSE Len(s))

StartsWith(s, p) == Len(s) >= Len(p) /\ SubSeq(s, 1, Len(p)) = p

EndsWith(s, p) ==
  Len(s) >= Len(p) /\ SubSeq(s, Len(s) - Len(p) + 1, Len(s)) = p

\* str < str: the first differing character decides, a proper prefix is less
RECURSIVE StrLess(_, _)
StrLess(a, b) ==
  IF b = << >> THEN FALSE
  ELSE IF a = << >> THEN TRUE
  ELSE IF Head(a) # Head(b) THEN Ord(Head(a)) < Ord(Head(b))
  ELSE StrLess(Tail(a), Tail(b))

\* min(list): the first element that no other element is less than
RECURSIVE MinFrom(_, _, _)
MinFrom(l, i, best) ==
  IF i > Len(l) THEN best
  ELSE MinFrom(l, i + 1, IF StrLess(l[i], best) THEN l[i] ELSE best)

Min(l) == MinFrom(l, 2, l[1])

\* os.path.join of two non-empty relative components
Join(a, b) == a \o << "/" >> \o b

\* int(str): an optional sign followed by one or more digits
IntBody(s) == IF s # << >> /\ Head(s) \in {"+", "-"} THEN Tail(s) ELSE s

IntOk(s) ==
  /\ IntBody(s) # << >>
  /\ \A i \in 1..Len(IntBody(s)) : IntBody(s)[i] \in Digits

RECURSIVE DigitsVal(_, _)
DigitsVal(s, acc) ==
  IF s = << >> THEN acc ELSE DigitsVal(Tail(s), 10 * acc + DigitVal(Head(s)))

IntVal(s) ==
  IF Head(s) = "-" THEN 0 - DigitsVal(IntBody(s), 0) ELSE DigitsVal(IntBody(s), 0)

\* ------------------------------------------------------------ file names
FitsExt == << ".", "f", "i", "t", "s" >>

\* The three integer fields that read_paths reads out of a five or six
\* character slice: [:2]/[:3], [2:4]/[3:5] and the last character.
RaParts(ra) == << Slice(ra, 0, 2), Slice(ra, 2, 4), Slice(ra, 4, 5) >>

DecParts(dec) == << Slice(dec, 0, 3), Slice(dec, 3, 5), Slice(dec, 5, 6) >>

PartsOk(parts) == \A i \in 1..3 : IntOk(parts[i])

\* whole + minutes / 60 + tenths / 10 / 60, in units of 1/600
Sexagesimal(parts) ==
  600 * IntVal(parts[1]) + 10 * IntVal(parts[2]) + IntVal(parts[3])

\* Whether the int() calls of read_paths succeed on this file name.
Parses(filename) ==
  /\ PartsOk(RaParts(Slice(filename, 0, 5)))
  /\ PartsOk(DecParts(Slice(filename, 5, 11)))

\* The centre read_paths computes from a file name, hours turned to degrees.
Centre(filename) ==
  << Sexagesimal(RaParts(Slice(filename, 0, 5))) * 15,
     Sexagesimal(DecParts(Slice(filename, 5, 11))) >>


\* -------------------------------------------------- the directory tree
Root == << "d" >>

Dir10510 == << "d", "/", "1", "0", "5", "1", "0" >>

Dir09210 == << "d", "/", "0", "9", "2", "1", "0" >>

DirOld == << "d", "/", "o", "l", "d" >>

NameE == << "1", "0", "5", "1", "0", "+", "3", "0", "4", "5", "6", "E", ".", "f", "i", "t", "s" >>

NameS == << "1", "0", "5", "1", "0", "+", "3", "0", "4", "5", "6", "S", ".", "f", "i", "t", "s" >>

NameA == << "1", "0", "5", "1", "0", "+", "3", "0", "4", "5", "6", "A", ".", "f", "i", "t", "s" >>

NameNeg == << "0", "9", "2", "1", "0", "-", "0", "7", "2", "3", "3", "R", ".", "f", "i", "t", "s" >>

NameNegZero == << "0", "9", "2", "1", "0", "-", "0", "0", "2", "3", "3", "R", ".", "f", "i", "t", "s" >>

NameHidden == << ".", "1", "0", "5", "1", "0", "+", "3", "0", "4", "5", "6", "E", ".", "f", "i", "t", "s" >>

NameTable == << "i", "m", "g", ".", "t", "b", "l" >>

NameNotes == << "n", "o", "t", "e", "s", ".", "f", "i", "t", "s" >>

File(dirpath, filename) == [dir |-> dirpath, name |-> filename]

\* The files a tree under Root is drawn from.
FileUniverse ==
  { File(Dir10510, NameE), File(Dir10510, NameS), File(DirOld, NameA),
    File(Dir09210, NameNeg), File(Dir09210, NameNegZero),
    File(Root, NameHidden), File(Root, NameTable), File(Root, NameNotes) }

Trees == { t \in SUBSET FileUniverse : Cardinality(t) <= MaxFiles }

\* The data directory of the tests: one real tile.
DataTree == { File(Dir10510, NameE) }

PathOf(f) == Join(f.dir, f.name)

\* the orders a listing can give the elements of S in
RECURSIVE Perms(_)
Perms(S) ==
  IF S = {} THEN { << >> }
  ELSE UNION { { << x >> \o w : w \in Perms(S \ {x}) } : x \in S }

\* os.walk(first_path): the top directory first, then one directory after
\* the other; the order of the directories and of the names in a directory
\* is whatever the file system lists.
WalkOrders(tree) ==
  { w \in Perms(tree) :
      /\ \A i, j \in DOMAIN w : (i < j /\ w[j].dir = Root) => w[i].dir = Root
      /\ \A i, j, k \in DOMAIN w :
           (i < k /\ k < j /\ w[i].dir = w[j].dir) => w[k].dir = w[i].dir }

\* ------------------------------------------------------------- the index
\* A dict in insertion order: a sequence of [centre, paths] items.
EmptyIndex == << >>

Keys(d) == [i \in DOMAIN d |-> d[i].centre]

HasKey(d, k) == \E i \in DOMAIN d : d[i].centre = k

KeyPos(d, k) == CHOOSE i \in DOMAIN d : d[i].centre = k

\* GetItem as it would be if the lookup put the chosen centre's list in
\* order in place
GetItem_reversed(d, k) ==
  IF HasKey(d, k)
    THEN [d EXCEPT ![KeyPos(d, k)].paths = [j \in DOMAIN @ |-> @[Len(@) + 1 - j]]]
    ELSE Append(d, [centre |-> k, paths |-> << >>])

\* the dict after evaluating d[k] on a defaultdict(list)
GetItem(d, k) ==
  IF HasKey(d, k) THEN d ELSE Append(d, [centre |-> k, paths |-> << >>])

\* the value of d[k]
Item(d, k) == GetItem(d, k)[KeyPos(GetItem(d, k), k)].paths

\* AppendPath as it would be if the dict kept one path per centre
AppendPath_overwrite(d, k, path) ==
  [GetItem(d, k) EXCEPT ![KeyPos(GetItem(d, k), k)].paths = << path >>]

\* centre_to_path[k].append(path), no deduplication
AppendPath(d, k, path) ==
  [GetItem(d, k) EXCEPT ![KeyPos(GetItem(d, k), k)].paths = Append(@, path)]

\* ------------------------------------------------------------ read_paths
Hidden(filename) == StartsWith(filename, << "." >>)

IsFits(filename) == EndsWith(filename, FitsExt)

\* The loop of read_paths over the walk w from position i on; a failing
\* int() raises ValueError out of the function.
RECURSIVE WalkFrom(_, _, _)
WalkFrom(w, i, centre_to_path) ==
  IF i > Len(w) THEN [raised |-> "none", index |-> centre_to_path]
  ELSE IF Hidden(w[i].name) THEN WalkFrom(w, i + 1, centre_to_path)
  ELSE IF ~IsFits(w[i].name) THEN WalkFrom(w, i + 1, centre_to_path)
  ELSE IF ~Parses(w[i].name) THEN [raised |-> "ValueError", index |-> EmptyIndex]
  ELSE WalkFrom(w, i + 1,
                AppendPath(centre_to_path, Centre(w[i].name), PathOf(w[i])))

read_paths(w) == WalkFrom(w, 1, EmptyIndex)

\* ------------------------------------------- the benchmark's grid encoding
RECURSIVE Str(_)
Str(n) ==
  IF n < 10 THEN << Alphabet[Ord("0") + n] >>
  ELSE Append(Str(n \div 10), Alphabet[Ord("0") + (n % 10)])

RECURSIVE ZFill(_, _)
ZFill(s, width) == IF Len(s) >= width THEN s ELSE ZFill(<< "0" >> \o s, width)

Abs(n) == IF n < 0 THEN 0 - n ELSE n

\* centre_str for ra in tenths of a minute of time and dec in tenths of an
\* arcminute
CentreStr(ra, dec) ==
  ZFill(Str(ra \div 600), 2) \o ZFill(Str(ra % 600), 3)
    \o << IF dec < 0 THEN "-" ELSE "+" >>
    \o ZFill(Str(Abs(dec) \div 600), 2) \o ZFill(Str(Abs(dec) % 600), 3)

\* The key the benchmark stores for a grid point: (ra / 10 / 60 / 24 * 360,
\* dec / 10 / 60), in units of 1/600 degree.
GridCentre(ra, dec) == << ra * 15, dec >>


\* ------------------------------------------- the benchmark's paths dict
DataPath == Root

FieldE == << "1", "0", "5", "1", "0", "+", "3", "0", "4", "5", "6", "E" >>

\* Grid points (ra, dec), in tenths of a minute of time and of arc, of the
\* benchmark's grid; the first one is the real tile 10510+30456.
GridPoints == { << 6510, 18456 >>, << 6510, 18656 >>, << 6590, 18456 >> }

HandEpochs == {"E", "S"}

EpochLists == UNION { [1..n -> HandEpochs] : n \in 1..MaxEpochs }

\* os.path.join(DATA_PATH, centre_str[:5], centre_str + epoch + '.fits')
GridPath(g, epoch) ==
  Join(Join(DataPath, Slice(CentreStr(g[1], g[2]), 0, 5)),
       CentreStr(g[1], g[2]) \o << epoch >> \o FitsExt)

GridItem(g, epochs) ==
  [centre |-> GridCentre(g[1], g[2]),
   paths |-> [i \in DOMAIN epochs |-> GridPath(g, epochs[i])]]

KeyLists ==
  UNION { { k \in [1..n -> GridPoints] : \A i, j \in 1..n : k[i] = k[j] => i = j }
          : n \in 0..MaxKeys }

\* The dicts a caller builds by hand as the benchmark does: some grid
\* points, each with its paths of the drawn epochs.
HandBuilt ==
  { [i \in DOMAIN k |-> GridItem(k[i], e)] : k \in KeyLists, e \in EpochLists }

\* ------------------------------------------------------------- get_image
None == << >>

\* Query coordinates in 1/600 degree: the one of the tests, one half way
\* between two grid points of the benchmark, one in the south.
Coords == { << 97518, 18406 >>, << 97650, 18556 >>, << 84150, 0 - 2000 >> }

SqDist(a, b) == (a[1] - b[1]) * (a[1] - b[1]) + (a[2] - b[2]) * (a[2] - b[2])

\* cdist([coord], centres)[0]; the distances are compared through their
\* squares
Dists(coord, centres) == [i \in DOMAIN centres |-> SqDist(coord, centres[i])]

\* ArgMinFrom as it would be if the last of several least values won
RECURSIVE ArgMinFrom_last(_, _, _)
ArgMinFrom_last(dists, i, best) ==
  IF i > Len(dists) THEN best
  ELSE ArgMinFrom_last(dists, i + 1, IF dists[i] <= dists[best] THEN i ELSE best)

\* numpy argmin: the first position of the least value
RECURSIVE ArgMinFrom(_, _, _)
ArgMinFrom(dists, i, best) ==
  IF i > Len(dists) THEN best
  ELSE ArgMinFrom(dists, i + 1, IF dists[i] < dists[best] THEN i ELSE best)

ArgMin(dists) == ArgMinFrom(dists, 2, 1)

Closest(coord, centres) == centres[ArgMin(Dists(coord, centres))]

SelectPath(pathlist) == Min(pathlist)

\* os.path.join(paths, field[:5], field + '.fits')
FieldPath(first_path, field) ==
  Join(Join(first_path, Slice(field, 0, 5)), field \o FitsExt)

Exists(tree, p) == \E f \in tree : PathOf(f) = p

\* WithExit as it would be if the file were opened without a with block
WithExit_leak(open, p) == open

\* leaving the with block of astropy.io.fits.open, on return or on raise
WithExit(open, p) == open \ {p}

\* Pixel coordinates all_world2pix can give, in tenths of a pixel.
XVals == { 0 - 15, 32, 38, 75 }

YVals == { 12, 38 }

Corners == XVals \X YVals \X XVals \X YVals

\* int(x): truncation toward zero
int(x) == IF x >= 0 THEN x \div 10 ELSE 0 - ((0 - x) \div 10)

\* the bound of a[start:stop] that Python makes of an index on n elements
SliceBound(i, n) ==
  IF i < 0 THEN (IF i + n < 0 THEN 0 ELSE i + n) ELSE (IF i > n THEN n ELSE i)

\* the elements start..stop-1 of an axis of n elements that a[i:j] takes
SliceRange(i, j, n) ==
  [start |-> SliceBound(i, n),
   stop |-> IF SliceBound(j, n) < SliceBound(i, n)
            THEN SliceBound(i, n) ELSE SliceBound(j, n)]

\* image[0, 0, int(min_y):int(max_y), int(min_x):int(max_x)]
Patch(c) ==
  [rows |-> SliceRange(int(c[2]), int(c[4]), ImgH),
   cols |-> SliceRange(int(c[1]), int(c[3]), ImgW)]

NoPatch == [rows |-> [start |-> 0, stop |-> 0], cols |-> [start |-> 0, stop |-> 0]]


\* ----------------------------------------------------------------- state
VARIABLES
  fs,        \* the files under the top-level directory
  index,     \* the dict the caller holds (centre_to_path)
  built,     \* how the last read_paths call of the caller ended
  op,        \* the function the last step belongs to
  pc,        \* where the running get_image call stands
  call,      \* get_image: the arguments coord, paths (its kind) and field
  paths,     \* get_image: the dict the local name paths is bound to
  closest,   \* get_image: the chosen centre
  path,      \* get_image: the chosen path
  open,      \* the paths of the tile files that are open
  opens,     \* how often the last get_image call opened a file
  corners,   \* get_image: (min_x, min_y, max_x, max_y)
  outcome,   \* how the last get_image call ended
  patch      \* the patch the last get_image call returned

vars ==
  << fs, index, built, op, pc, call, paths, closest, path, open, opens,
     corners, outcome, patch >>

NoCall == [coord |-> None, arg |-> "none", field |-> None]

Init ==
  /\ \/ fs \in Trees /\ index = EmptyIndex
     \/ fs = DataTree /\ index \in HandBuilt
  /\ built = "none"
  /\ op = "none"
  /\ pc = "idle"
  /\ call = NoCall
  /\ paths = EmptyIndex
  /\ closest = None
  /\ path = None
  /\ open = {}
  /\ opens = 0
  /\ corners = None
  /\ outcome = "none"
  /\ patch = NoPatch

\* index = read_paths(first_path), called by the user of the module.  The
\* tree does not change, so a second walk could only give one of the dicts
\* the first one can give: the caller builds its dict once.
ReadPaths ==
  /\ pc = "idle"
  /\ built = "none"
  /\ \E w \in WalkOrders(fs) :
       LET r == read_paths(w) IN
         /\ built' = IF r.raised = "none" THEN "returned" ELSE r.raised
         /\ index' = IF r.raised = "none" THEN r.index ELSE index
  /\ op' = "read_paths"
  /\ UNCHANGED << fs, pc, call, paths, closest, path, open, opens, corners,
                  outcome, patch >>

\* The call is over: its local names are gone, what is left is the patch
\* or the exception.
Leave(result) ==
  /\ pc' = "idle"
  /\ outcome' = result
  /\ call' = NoCall
  /\ paths' = EmptyIndex
  /\ closest' = None
  /\ path' = None
  /\ corners' = None

\* get_image is entered: the arguments are bound and checked
GetImageCall ==
  /\ pc = "idle"
  /\ \E coord \in Coords, arg \in {"dict", "str"}, field \in {None, FieldE} :
       IF field # None /\ arg = "dict"
         THEN Leave("ValueError: field must be None if paths is a dict")
         ELSE /\ call' = [coord |-> coord, arg |-> arg, field |-> field]
              /\ pc' = "called"
              /\ outcome' = "none"
              /\ UNCHANGED << paths, closest, path, corners >>
  /\ op' = "get_image"
  /\ opens' = 0
  /\ patch' = NoPatch
  /\ UNCHANGED << fs, index, built, open >>

\* Search as it would be if an empty dict fell back on a default tile
Search_default(coord, d, own) ==
  /\ closest' = IF Keys(d) = << >> THEN None ELSE Closest(coord, Keys(d))
  /\ path' = IF Keys(d) = << >> THEN FieldPath(Root, FieldE)
             ELSE SelectPath(Item(d, Closest(coord, Keys(d))))
  /\ paths' = d
  /\ index' = index
  /\ pc' = "located"
  /\ UNCHANGED << call, corners, outcome >>

\* The nearest-centre search in the dict d and the choice of the epoch; own
\* tells whether d is the caller's dict or one built inside the call.
Search(coord, d, own) ==
  IF Keys(d) = << >>
    THEN Leave("ValueError: XB must be a 2-dimensional array") /\ UNCHANGED index
  ELSE IF Item(d, Closest(coord, Keys(d))) = << >>
    THEN Leave("ValueError: min() arg is an empty sequence") /\ UNCHANGED index
  ELSE /\ closest' = Closest(coord, Keys(d))
       /\ path' = SelectPath(Item(d, Closest(coord, Keys(d))))
       /\ paths' = GetItem(d, Closest(coord, Keys(d)))
       /\ index' = IF own THEN GetItem(d, Closest(coord, Keys(d))) ELSE index
       /\ pc' = "located"
       /\ UNCHANGED << call, corners, outcome >>

\* the choice of the tile: the search, or the path of the given field
GetImageLocate ==
  /\ pc = "called"
  /\ IF call.field # None
       THEN /\ path' = FieldPath(Root, call.field)
            /\ pc' = "located"
            /\ UNCHANGED << index, call, paths, closest, corners, outcome >>
     ELSE IF call.arg = "dict" THEN Search(call.coord, index, TRUE)
     ELSE \E w \in WalkOrders(fs) :
            LET r == read_paths(w) IN
              IF r.raised # "none"
                THEN Leave("ValueError: invalid literal for int()") /\ UNCHANGED index
                ELSE Search(call.coord, r.index, FALSE)
  /\ op' = "get_image"
  /\ UNCHANGED << fs, built, open, opens, patch >>

\* astropy.io.fits.open(path)
GetImageOpen ==
  /\ pc = "located"
  /\ IF Exists(fs, path)
       THEN /\ open' = open \cup {path}
            /\ opens' = opens + 1
            /\ pc' = "opened"
            /\ UNCHANGED << call, paths, closest, path, corners, outcome >>
       ELSE /\ Leave("IOError")
            /\ UNCHANGED << open, opens >>
  /\ op' = "get_image"
  /\ UNCHANGED << fs, index, built, patch >>

\* the header, the WCS and all_world2pix, which may raise
GetImageTransform ==
  /\ pc = "opened"
  /\ \/ /\ corners' \in Corners
        /\ pc' = "transformed"
        /\ UNCHANGED << call, paths, closest, path, open, outcome >>
     \/ /\ Leave("WCSError")
        /\ open' = WithExit(open, path)
  /\ op' = "get_image"
  /\ UNCHANGED << fs, index, built, opens, patch >>

BoxOk(c) == c[1] < c[3] /\ c[2] < c[4]

\* the two asserts, the slice and the return
GetImageSlice ==
  /\ pc = "transformed"
  /\ IF BoxOk(corners)
       THEN Leave("patch") /\ patch' = Patch(corners)
       ELSE Leave("AssertionError") /\ UNCHANGED patch
  /\ open' = WithExit(open, path)
  /\ op' = "get_image"
  /\ UNCHANGED << fs, index, built, opens >>

Next ==
  \/ ReadPaths
  \/ GetImageCall
  \/ GetImageLocate
  \/ GetImageOpen
  \/ GetImageTransform
  \/ GetImageSlice

Spec == Init /\ [][Next]_vars

\* ------------------------------------------------------------ properties
\* the call is past the nearest-centre search of a dict
Searched == pc \in {"located", "opened", "transformed"} /\ call.field = None

\* the letter just before '.fits'
Letter(p) == p[Len(p) - Len(FitsExt)]

\* the file name of a path
BaseName(p) ==
  LET i == CHOOSE i \in 0..Len(p) :
             (i = 0 \/ p[i] = "/") /\ \A j \in (i + 1)..Len(p) : p[j] # "/"
  IN SubSeq(p, i + 1, Len(p))

\* a file read_paths does not pass over
Indexable(f) == ~Hidden(f.name) /\ IsFits(f.name)

\* the places of a dict where a path stands
Places(d, p) ==
  { ij \in UNION { { << i, j >> : j \in DOMAIN d[i].paths } : i \in DOMAIN d } :
      d[ij[1]].paths[ij[2]] = p }

AllPlaces(d) == UNION { { << i, j >> : j \in DOMAIN d[i].paths } : i \in DOMAIN d }

\* C1: the centre get_image chooses (field=None) is a key of the dict at
\* the least distance from the query, and of the keys at that distance the
\* first in the dict's order.
C1_NearestFirstKey ==
  Searched =>
    \E i \in DOMAIN paths :
      /\ paths[i].centre = closest
      /\ \A j \in DOMAIN paths :
           /\ SqDist(call.coord, paths[j].centre) >= SqDist(call.coord, closest)
           /\ j < i => SqDist(call.coord, paths[j].centre) > SqDist(call.coord, closest)

\* C1 witness: the query is equally far from the first two keys and the
\* first one is chosen.
C1_TieKeepsFirst ==
  /\ pc = "located"
  /\ call.field = None
  /\ Len(paths) >= 2
  /\ SqDist(call.coord, paths[1].centre) = SqDist(call.coord, paths[2].centre)
  /\ closest = paths[1].centre

\* C2: the path get_image selects has the least epoch letter of the paths
\* of the chosen centre, whatever their order and directories.
C2_SmallestEpochLetter ==
  Searched =>
    \A j \in DOMAIN Item(paths, closest) :
      Ord(Letter(path)) <= Ord(Letter(Item(paths, closest)[j]))

\* C3: every path read_paths indexed stands under the centre its file name
\* encodes: the key, written in the grid encoding, is the name's RA and Dec
\* fields.
C3_DecodeRoundTrip ==
  (op = "read_paths" /\ built = "returned") =>
    \A ij \in AllPlaces(index) :
      CentreStr(index[ij[1]].centre[1] \div 15, index[ij[1]].centre[2])
        = SubSeq(BaseName(index[ij[1]].paths[ij[2]]), 1, 11)

\* C4: the dict read_paths returns holds the path of every file that is not
\* hidden and ends in '.fits' exactly once, under the centre read from its
\* name, holds no other path, and holds as many paths as there are such files.
C4_IndexHoldsEveryTileOnce ==
  (op = "read_paths" /\ built = "returned") =>
    /\ \A f \in fs :
         Indexable(f) =>
           /\ Cardinality(Places(index, PathOf(f))) = 1
           /\ \A ij \in Places(index, PathOf(f)) :
                index[ij[1]].centre = Centre(f.name)
    /\ \A ij \in AllPlaces(index) :
         \E f \in fs : Indexable(f) /\ PathOf(f) = index[ij[1]].paths[ij[2]]
    /\ Cardinality(AllPlaces(index)) = Cardinality({ f \in fs : Indexable(f) })

\* C4 witness: a tree with a hidden file, a file that is no tile and two
\* tiles of one centre was indexed.
C4_TwoOfFourIndexed ==
  /\ op = "read_paths"
  /\ built = "returned"
  /\ fs = { File(Root, NameHidden), File(Root, NameTable),
            File(Dir10510, NameE), File(Dir10510, NameS) }
  /\ Len(index) = 1
  /\ Len(index[1].paths) = 2

\* C5: read_paths over a tree with a '.fits' file whose name does not have
\* the fixed-width layout returns, and the dict holds every well-formed
\* tile and nothing for that file.
C5_MalformedSkipped ==
  (op = "read_paths" /\ \E f \in fs : Indexable(f) /\ ~Parses(f.name)) =>
    /\ built = "returned"
    /\ \A f \in fs :
         Indexable(f) =>
           (Places(index, PathOf(f)) # {} <=> Parses(f.name))

\* the search of the running call will find no centre
EmptySearch ==
  /\ pc = "called"
  /\ call.field = None
  /\ \/ call.arg = "dict" /\ index = EmptyIndex
     \/ call.arg = "str" /\ \A f \in fs : ~Indexable(f)

NonEmpty(p) == p.rows.start < p.rows.stop /\ p.cols.start < p.cols.stop

\* C7: get_image returns a patch only if min_x < max_x and min_y < max_y,
\* and the patch it returns has at least one row and one column.
C7_PatchNeverEmpty ==
  [][pc = "transformed" =>
       IF BoxOk(corners) THEN outcome' = "patch" => NonEmpty(patch')
       ELSE outcome' # "patch"]_vars

\* the box lies within the pixel array of the tile
Inside(c) ==
  /\ c[1] >= 0 /\ c[3] <= 10 * ImgW
  /\ c[2] >= 0 /\ c[4] <= 10 * ImgH

\* C8: get_image returns no patch when the pixel box does not lie within
\* the tile's pixel array.
C8_OutsideBoxFails ==
  [][(pc = "transformed" /\ ~Inside(corners)) => outcome' # "patch"]_vars

\* C9: a get_image call opens the tile file at most once, only after the
\* path is chosen, and no file is open when the call is over, however it
\* ends.
C9_HandleScopedToCall ==
  /\ opens <= 1
  /\ pc \in {"idle", "called", "located"} => open = {}
  /\ pc \in {"opened", "transformed"} => (path # None /\ open = {path} /\ opens = 1)

\* C9 witness: a call that opened its tile ended on the failing assert and
\* left no file open.
C9_ClosedAfterAssert ==
  /\ pc = "idle"
  /\ outcome = "AssertionError"
  /\ opens = 1
  /\ open = {}

\* C10: no step of get_image changes the caller's dict.
C10_IndexUnchanged == [][op' = "get_image" => index' = index]_vars

\* C10 witness: the search ran on the caller's dict, and the chosen centre
\* has two different paths.
C10_SearchedCallersDict ==
  /\ pc = "located"
  /\ call.arg = "dict"
  /\ call.field = None
  /\ paths = index
  /\ \E i \in DOMAIN index :
       /\ index[i].centre = closest
       /\ Len(index[i].paths) = 2
       /\ index[i].paths[1] # index[i].paths[2]

=============================================================================
